---- MODULE Spec2Model ----
(***************************************************************************)
(* Nengo.XYValue (nengo_gui/static/components/xyvalue.js): the XY plot of  *)
(* two dimensions of a streamed N-dimensional value.                       *)
(*                                                                         *)
(* The component is one JavaScript object.  Each of its methods is an      *)
(* operator from the object's state (a record, `self') to the state the    *)
(* method leaves; each event handler is an action that applies the         *)
(* handler's whole call chain to the current state.                        *)
(*                                                                         *)
(* Numbers typed by the user are JavaScript numbers: a record [nan, v]     *)
(* with v counted in tenths (one decimal digit of precision), so "1.5" is  *)
(* v = 15 and the index 2 is v = 20.  Texts are sequences of one-character *)
(* strings.                                                                *)
(***************************************************************************)
EXTENDS Integers, Sequences, FiniteSets, TLC

\* ------------------------------------------------------------------ bounds
MaxN == 2
MaxStream == 2

\* ------------------------------------------- JavaScript values and parsing
NaN == [nan |-> TRUE, v |-> 0]

Num(t) == [nan |-> FALSE, v |-> t]

\* the value of a missing array element (nums[1] of a one-field input)
Undefined == <<"undefined">>

Digits == <<"0", "1", "2", "3", "4", "5", "6", "7", "8", "9">>

IsDigit(c) == \E i \in 1..Len(Digits) : Digits[i] = c

DigitVal(c) == (CHOOSE i \in 1..Len(Digits) : Digits[i] = c) - 1

\* String.prototype.split(','): the fields between the commas, at least one
RECURSIVE split(_)
split(s) ==
    LET commas == {i \in 1..Len(s) : s[i] = ","}
    IN  IF commas = {} THEN <<s>>
        ELSE LET i == CHOOSE c \in commas : \A d \in commas : c <= d
             IN  <<SubSeq(s, 1, i - 1)>> \o split(SubSeq(s, i + 1, Len(s)))

\* nums[k] of a JavaScript array (k counted from 0)
At(nums, k) == IF k + 1 <= Len(nums) THEN nums[k + 1] ELSE Undefined

\* how many digit characters s holds from position i on
RECURSIVE DigitRun(_, _)
DigitRun(s, i) ==
    IF i <= Len(s) /\ IsDigit(s[i]) THEN 1 + DigitRun(s, i + 1) ELSE 0

\* the value of the n digits of s from position i on, in the given base
RECURSIVE DigitsValue(_, _, _, _)
DigitsValue(s, i, n, base) ==
    IF n = 0 THEN 0
    ELSE DigitsValue(s, i, n - 1, base) * base + DigitVal(s[i + n - 1])

\* the longest StrUnsignedDecimalLiteral of s at position i (no exponent):
\* digits [. digits] or . digits; len = 0 when there is none; v in tenths
StrDecimal(s, i) ==
    LET n1 == DigitRun(s, i)
        hasDot == i + n1 <= Len(s) /\ s[i + n1] = "."
        n2 == IF hasDot THEN DigitRun(s, i + n1 + 1) ELSE 0
    IN  IF n1 = 0 /\ n2 = 0 THEN [len |-> 0, v |-> 0]
        ELSE [len |-> n1 + (IF hasDot THEN 1 + n2 ELSE 0),
              v |-> DigitsValue(s, i, n1, 10) * 10
                    + (IF n2 > 0 THEN DigitVal(s[i + n1 + 1]) ELSE 0)]

IsNeg(s) == Len(s) >= 1 /\ s[1] = "-"

IsHexAt(s, i) == i + 1 <= Len(s) /\ s[i] = "0" /\ s[i + 1] = "x"

\* parseFloat(text): the longest numeric prefix, NaN when there is none
parseFloat(s) ==
    IF s = Undefined THEN NaN
    ELSE LET i == IF IsNeg(s) THEN 2 ELSE 1
             d == StrDecimal(s, i)
         IN  IF d.len = 0 THEN NaN
             ELSE Num(IF IsNeg(s) THEN 0 - d.v ELSE d.v)

\* Number(text): the whole text as a numeric literal; "" is 0, "0x.." is hex
Number(s) ==
    IF s = Undefined THEN NaN
    ELSE IF s = <<>> THEN Num(0)
    ELSE IF IsHexAt(s, 1)
    THEN IF Len(s) > 2 /\ DigitRun(s, 3) = Len(s) - 2
         THEN Num(DigitsValue(s, 3, Len(s) - 2, 16) * 10)
         ELSE NaN
    ELSE LET i == IF IsNeg(s) THEN 2 ELSE 1
             d == StrDecimal(s, i)
         IN  IF d.len > 0 /\ i + d.len - 1 = Len(s)
             THEN Num(IF IsNeg(s) THEN 0 - d.v ELSE d.v)
             ELSE NaN

\* parseInt(text), no radix: the longest integer prefix, "0x" read as hex
parseInt(s) ==
    IF s = Undefined THEN NaN
    ELSE LET i == IF IsNeg(s) THEN 2 ELSE 1
             hex == IsHexAt(s, i)
             j == IF hex THEN i + 2 ELSE i
             n == DigitRun(s, j)
             m == DigitsValue(s, j, n, IF hex THEN 16 ELSE 10) * 10
         IN  IF n = 0 THEN NaN ELSE Num(IF IsNeg(s) THEN 0 - m ELSE m)

\* parseInt(number): the number's integer part (truncated towards zero)
parseIntOfNumber(x) ==
    IF x.nan THEN NaN
    ELSE Num(IF x.v >= 0 THEN (x.v \div 10) * 10
             ELSE 0 - (((0 - x.v) \div 10) * 10))

\* number == text: the text is converted with Number; NaN equals nothing
LooseEq(x, s) ==
    /\ s # Undefined
    /\ ~x.nan
    /\ ~Number(s).nan
    /\ x.v = Number(s).v

\* jQuery's $.isNumeric(text): (text - parseFloat(text) + 1) >= 0
isNumeric(s) ==
    /\ ~Number(s).nan
    /\ ~parseFloat(s).nan
    /\ Number(s).v - parseFloat(s).v + 10 >= 0

\* ------------------------------------------------------ the model's inputs
\* "a,b" as the user types it
Pair(a, b) == a \o <<",">> \o b

\* the texts tried in the range dialog
RangeTexts ==
    { Pair(<<"-", "1">>, <<"1">>),          \* -1,1
      Pair(<<"0">>, <<"1">>),               \* 0,1
      Pair(<<"0">>, <<"0", "x", "1">>),     \* 0,0x1   (hexadecimal 1)
      Pair(<<"1">>, <<"2">>),               \* 1,2     (does not cross zero)
      Pair(<<"1">>, <<"-", "1">>),          \* 1,-1    (not ordered)
      Pair(<<"q">>, <<"1">>),               \* q,1     (not a number)
      Pair(<<"-", "1">>, <<>>),             \* -1,     (empty field)
      Pair(Pair(<<"-", "1">>, <<"1">>), <<"2">>) }   \* -1,1,2

\* the texts tried in the indices dialog
IndexTexts ==
    { Pair(<<"0">>, <<"1">>),               \* 0,1
      Pair(<<"1">>, <<"1">>),               \* 1,1
      Pair(<<"1">>, <<"2">>),               \* 1,2
      Pair(<<"1">>, <<"3">>),               \* 1,3
      Pair(<<"-", "1">>, <<"0">>),          \* -1,0    (negative)
      Pair(<<"1", ".", "5">>, <<"0">>),     \* 1.5,0   (not an integer)
      Pair(<<"1">>, <<>>),                  \* 1,      (empty field)
      <<"1">>,                              \* 1       (one field)
      Pair(Pair(<<"0">>, <<"1">>), <<"0">>) }        \* 0,1,0

\* the viewport sizes the host gives
Sizes == {<<300, 150>>, <<120, 240>>}

\* the frames the server sends to a component of n dimensions whose newest
\* sample is `newest' (<<>> when it holds none): the next sample of a signal
\* that alternates between (1,2,..) and (4,5,..), or a frame that is one
\* element too long
Frames(n, newest) ==
    {IF newest # <<>> /\ newest[1] = 1 THEN [i \in 1..n |-> 3 + i]
                                       ELSE [i \in 1..n |-> i],
     [i \in 1..(n + 1) |-> 6 + i]}

\* the layouts the server holds from an earlier session (validated when
\* saved): the range [0, 1] with the last dimension against the first
StoredLayouts(n) ==
    {[min_value |-> Num(0), max_value |-> Num(10),
      index_x |-> Num(10 * (n - 1)), index_y |-> Num(0)]}

VARIABLES
    n_lines,         \* this.n_lines: the number of dimensions, N
    data,            \* data_store.data: one array of values per dimension
    expired,         \* how many of the oldest samples the window has left
    index_x,         \* this.index_x
    index_y,         \* this.index_y
    axes2d,          \* this.axes2d: min_val, max_val, both scales' domains,
                     \*   both axes' tick values and the pixel size
    width,           \* this.width
    height,          \* this.height
    path,            \* the 'd' attribute of this.path: the drawn points
    recent_circle,   \* this.recent_circle: its cx, cy and r attributes
    warning_label,   \* the children of this.warning_label (the rects)
    invalid_dims,    \* this.invalid_dims
    pending_update,  \* this.pending_update (Nengo.Component)
    threw,           \* the last handler ended with an uncaught exception
    last_op          \* the last handler that ran (a dialog's, once it accepted)

vars ==
    <<n_lines, data, expired, index_x, index_y, axes2d, width, height,
      path, recent_circle, warning_label, invalid_dims, pending_update,
      threw, last_op>>

\* the component and what it owns, as one record; calls lists the calls a
\* handler has made so far, in order, each with the configuration it found
This ==
    [n_lines |-> n_lines, data |-> data, expired |-> expired,
     index_x |-> index_x, index_y |-> index_y,
     axes2d |-> axes2d, width |-> width, height |-> height, path |-> path,
     recent_circle |-> recent_circle, warning_label |-> warning_label,
     invalid_dims |-> invalid_dims, pending_update |-> pending_update,
     threw |-> threw, last_op |-> last_op,
     calls |-> <<>>]

\* a handler gets to work: nothing thrown yet
Enter(self, op) == [self EXCEPT !.threw = FALSE, !.last_op = op]

\* the state a handler leaves becomes the next state
Becomes(s) ==
    /\ n_lines' = s.n_lines
    /\ data' = s.data
    /\ expired' = s.expired
    /\ index_x' = s.index_x
    /\ index_y' = s.index_y
    /\ axes2d' = s.axes2d
    /\ width' = s.width
    /\ height' = s.height
    /\ path' = s.path
    /\ recent_circle' = s.recent_circle
    /\ warning_label' = s.warning_label
    /\ invalid_dims' = s.invalid_dims
    /\ pending_update' = s.pending_update
    /\ threw' = s.threw
    /\ last_op' = s.last_op

\* a call, with the configuration and the size it found
Called(self, op) ==
    [self EXCEPT !.calls = Append(@,
        [op |-> op, index_x |-> self.index_x, index_y |-> self.index_y,
         domain_x |-> self.axes2d.domain_x, domain_y |-> self.axes2d.domain_y,
         width |-> self.width, height |-> self.height])]

\* an uncaught TypeError: the rest of the handler does not run
Throw(self) == [self EXCEPT !.threw = TRUE]

\* --------------------------------------- Nengo.DataStore (windowed store)
\* The samples are kept in the order of their times.  The window follows the
\* simulation time: when the time moves on, some of the oldest samples are
\* left outside it (expired), and update() discards them.

\* how many samples the store holds
StoreLen(self) == Len(self.data[1])

\* the newest sample the store holds, <<>> when it holds none
Newest(self) ==
    IF StoreLen(self) = 0 THEN <<>>
    ELSE [i \in 1..Len(self.data) |-> self.data[i][StoreLen(self)]]

\* data_store.push(row): one sample of N values, the newest
DataStore_push(self, row) ==
    IF Len(row) # Len(self.data) THEN self
    ELSE [self EXCEPT !.data = [i \in 1..Len(self.data) |->
                                    Append(self.data[i], row[i])]]

\* data_store.reset(): discard every sample
DataStore_reset(self) ==
    [self EXCEPT !.data = [i \in 1..Len(self.data) |-> <<>>],
                 !.expired = 0]

\* data_store.update(): discard the samples that left the window
DataStore_update(self) ==
    [self EXCEPT !.data = [i \in 1..Len(self.data) |->
                              SubSeq(self.data[i], self.expired + 1,
                                     Len(self.data[i]))],
                 !.expired = 0]

\* data_store.get_shown_data(): the window's samples, one array per dimension
get_shown_data(self) ==
    [i \in 1..Len(self.data) |->
        SubSeq(self.data[i], self.expired + 1, Len(self.data[i]))]

\* the simulation time moves to where k of the stored samples are outside
\* the window
Sim_adjust_time(self, k) == [self EXCEPT !.expired = k]

\* ------------------------------------------------- Nengo.XYAxes (scales)
\* scale_x(v), scale_y(v): where a value lies on the screen.  The path and
\* the circle are recorded by the values they are drawn at; the axes, which
\* turn them into pixels, keep the domain and the pixel size.
scale_x(self, v) == v

scale_y(self, v) == v

\* axes2d.on_resize(width, height)
XYAxes_on_resize(self, w, h) ==
    [self EXCEPT !.axes2d.width = w, !.axes2d.height = h]

\* ------------------------------------------------------- Nengo.Component
\* schedule_update(): ask for one update at the next animation frame
schedule_update(self) ==
    [self EXCEPT !.pending_update = TRUE]

get_screen_width(self) == self.width

get_screen_height(self) == self.height

\* Nengo.Component.prototype.update_layout: the position and size on the
\* page, which are no part of the state modelled here
Component_update_layout(self, config) == self

\* ---------------------------------------------------------- Nengo.XYValue
\* data[index] of a JavaScript array exists for the integers 0..length-1 only
HasRow(rows, index) ==
    /\ ~index.nan
    /\ index.v >= 0
    /\ index.v % 10 = 0
    /\ index.v \div 10 < Len(rows)

Row(rows, index) == rows[(index.v \div 10) + 1]

\* a slip: line 88 counting the samples instead of the dimensions
valid_dimensions_by_points(self) == StoreLen(self) > 1

\* a slip: line 88 with >= in place of >
valid_dimensions_any(self) == Len(self.data) >= 1

\* line 88: the data has valid dimensions (at least two of them)
valid_dimensions(self) == Len(self.data) > 1

\* a slip: the two accessors of the line exchanged
line_points_swapped(self, xs, ys) ==
    [i \in 1..Len(ys) |-> <<scale_x(self, ys[i]), scale_y(self, xs[i])>>]

\* lines 95-102: the points of the line, x from index_x and y from index_y
line_points(self, xs, ys) ==
    [i \in 1..Len(ys) |-> <<scale_x(self, xs[i]), scale_y(self, ys[i])>>]

\* a slip: line 119 without its test of invalid_dims
warning_missing_always(self) == TRUE

\* line 119: the warning is not shown yet
warning_missing(self) == self.invalid_dims = FALSE

\* update(): lines 81-132
update(self) ==
    LET s1 == DataStore_update(Called(self, "update"))
    IN  IF valid_dimensions(s1)
        THEN LET shown_data == get_shown_data(s1)
             IN  IF ~HasRow(shown_data, s1.index_x)
                 THEN Throw(s1)     \* shown_data[index_x] is undefined
                 ELSE
                 LET xs == Row(shown_data, s1.index_x)
                     last_index == Len(xs) - 1
                 IN  IF last_index >= 0 /\ ~HasRow(shown_data, s1.index_y)
                     THEN Throw(s1)     \* the line of an undefined array
                     ELSE
                     LET ys == Row(shown_data, s1.index_y)
                         s2 == IF last_index >= 0
                               THEN [s1 EXCEPT
                                      !.path = line_points(s1, xs, ys),
                                      !.recent_circle.cx =
                                          scale_x(s1, xs[last_index + 1]),
                                      !.recent_circle.cy =
                                          scale_y(s1, ys[last_index + 1])]
                               ELSE s1
                     IN  \* warning_label is a d3 selection: it has no
                         \* lastChild, so the loop removes nothing
                         IF s2.invalid_dims = TRUE
                         THEN [s2 EXCEPT !.invalid_dims = FALSE]
                         ELSE s2
        ELSE IF warning_missing(s1)
        THEN [s1 EXCEPT !.invalid_dims = TRUE,
                        !.warning_label =
                            Append(@, [x |-> 50, y |-> 50,
                                       width |-> 0, height |-> 0])]
        ELSE s1

\* the callback schedule_update leaves for the next animation frame
\* (Nengo.Component): one update()
animation_frame(self) ==
    update([self EXCEPT !.pending_update = FALSE])

\* get_circle_radius(): lines 157-159
get_circle_radius(self) ==
    (IF self.width < self.height THEN self.width ELSE self.height) \div 30

\* on_resize(width, height): lines 137-155
on_resize(self, w, h) ==
    LET s1 == update(XYAxes_on_resize(Called(self, "on_resize"), w, h))
        s2 == [s1 EXCEPT !.width = w, !.height = h]
        s3 == [s2 EXCEPT !.recent_circle.r = get_circle_radius(s2)]
    IN  IF s1.threw THEN s1
        ELSE [s3 EXCEPT !.warning_label =
                 [k \in 1..Len(@) |->
                    IF k = 1
                    THEN [@[k] EXCEPT !.width = w - 100, !.height = h - 100]
                    ELSE @[k]]]

\* a slip: layout_info() with the two indices exchanged
layout_info_swapped(self) ==
    [min_value |-> self.axes2d.domain_y[1],
     max_value |-> self.axes2d.domain_y[2],
     index_x |-> self.index_y,
     index_y |-> self.index_x]

\* layout_info(): lines 172-179
layout_info(self) ==
    [min_value |-> self.axes2d.domain_y[1],
     max_value |-> self.axes2d.domain_y[2],
     index_x |-> self.index_x,
     index_y |-> self.index_y]

\* save_layout() (Nengo.Component): send layout_info() to the server
save_layout(self) == Called(self, "save_layout")

\* update_range(min, max): lines 234-244
update_range(self, min, max) ==
    LET s1 == [Called(self, "update_range") EXCEPT
                  !.axes2d.min_val = min,
                  !.axes2d.max_val = max,
                  !.axes2d.domain_x = <<min, max>>,
                  !.axes2d.domain_y = <<min, max>>,
                  !.axes2d.ticks_x = <<min, max>>,
                  !.axes2d.ticks_y = <<min, max>>]
    IN  on_resize(s1, get_screen_width(s1), get_screen_height(s1))

\* update_indices(index_x, index_y): lines 286-290
update_indices(self, x, y) ==
    update([Called(self, "update_indices") EXCEPT
               !.index_x = x, !.index_y = y])

\* a slip: update_layout applying the range before the indices
update_layout_range_first(self, config) ==
    LET s1 == update_range(self, config.min_value, config.max_value)
        s2 == update_indices(s1, config.index_x, config.index_y)
    IN  IF s1.threw THEN s1
        ELSE IF s2.threw THEN s2
        ELSE Component_update_layout(s2, config)

\* update_layout(config): lines 181-185
update_layout(self, config) ==
    LET s1 == update_indices(self, config.index_x, config.index_y)
        s2 == update_range(s1, config.min_value, config.max_value)
    IN  IF s1.threw THEN s1
        ELSE IF s2.threw THEN s2
        ELSE Component_update_layout(s2, config)

\* a slip: reset() putting the indices back to the first two dimensions
reset_all(self) ==
    schedule_update(DataStore_reset([self EXCEPT !.index_x = Num(0),
                                                 !.index_y = Num(10)]))

\* a slip: reset() clearing the line as well
reset_clearing(self) ==
    schedule_update(DataStore_reset([self EXCEPT !.path = <<>>]))

\* reset(): lines 292-295
reset(self) == schedule_update(DataStore_reset(self))

\* a slip: on_message drawing at once instead of scheduling
on_message_draws(self, row) == update(DataStore_push(self, row))

\* a slip: on_message cutting or padding the frame to the n_lines values
on_message_truncating(self, row) ==
    schedule_update(DataStore_push(self,
        [i \in 1..Len(self.data) |-> IF i <= Len(row) THEN row[i] ELSE 0]))

\* on_message(event): lines 72-76
on_message(self, row) == schedule_update(DataStore_push(self, row))

\* the custom validator of the range dialog: lines 212-225
set_range_validator(text) ==
    LET nums == split(text)
        ordered == Number(At(nums, 0)).v < Number(At(nums, 1)).v
        zeroed == Number(At(nums, 0)).v * Number(At(nums, 1)).v <= 0
        valid == /\ isNumeric(At(nums, 0))
                 /\ isNumeric(At(nums, 1))
                 /\ ordered
                 /\ zeroed
    IN  Len(nums) = 2 /\ valid

\* the OK handler of the range dialog: lines 192-209
set_range_ok(self, text) ==
    IF ~set_range_validator(text) THEN self     \* modal.hasErrors()
    ELSE LET new_range == split(text)
             min == parseFloat(At(new_range, 0))
             max == parseFloat(At(new_range, 1))
             s1 == update_range(Enter(self, "set_range"), min, max)
             s2 == update(s1)
         IN  IF s1.threw THEN s1
             ELSE IF s2.threw THEN s2
             ELSE save_layout(s2)

\* the custom validator of the indices dialog: lines 268-275
set_indices_validator(self, text) ==
    LET nums == split(text)
        n0 == Number(At(nums, 0))
        n1 == Number(At(nums, 1))
    IN  /\ LooseEq(parseIntOfNumber(n0), At(nums, 0))
        /\ LooseEq(parseIntOfNumber(n1), At(nums, 1))
        /\ Len(nums) = 2
        /\ (n1.v < self.n_lines * 10 /\ n1.v >= 0)
        /\ (n0.v < self.n_lines * 10 /\ n0.v >= 0)

\* the OK handler of the indices dialog: lines 250-265
set_indices_ok(self, text) ==
    IF ~set_indices_validator(self, text) THEN self     \* modal.hasErrors()
    ELSE LET new_indices == split(text)
             s1 == update_indices(Enter(self, "set_indices"),
                                  parseInt(At(new_indices, 0)),
                                  parseInt(At(new_indices, 1)))
         IN  IF s1.threw THEN s1 ELSE save_layout(s1)

\* the constructor, lines 18-65, for the arguments the server passes: the
\* range [-1, 1] and two indices below n
XYValue(n, ix, iy, size) ==
    LET lo == Num(0 - 10)
        hi == Num(10)
        s0 == [n_lines |-> n, data |-> [i \in 1..n |-> <<>>], expired |-> 0,
               index_x |-> Num(10 * ix), index_y |-> Num(10 * iy),
               axes2d |-> [min_val |-> lo, max_val |-> hi,
                           domain_x |-> <<lo, hi>>, domain_y |-> <<lo, hi>>,
                           ticks_x |-> <<lo, hi>>, ticks_y |-> <<lo, hi>>,
                           width |-> size[1], height |-> size[2]],
               width |-> size[1], height |-> size[2],
               path |-> <<>>,
               recent_circle |-> [cx |-> 0, cy |-> 0, r |-> 0],
               warning_label |-> <<>>, invalid_dims |-> FALSE,
               pending_update |-> FALSE,
               threw |-> FALSE, last_op |-> "new",
               calls |-> <<>>]
        s1 == [s0 EXCEPT !.recent_circle =
                  [cx |-> scale_x(s0, 0), cy |-> scale_y(s0, 0),
                   r |-> get_circle_radius(s0)]]
    IN  on_resize(s1, get_screen_width(s1), get_screen_height(s1))

\* ------------------------------------------------------------ the actions
Init ==
    \E n \in 1..MaxN, size \in Sizes :
        /\ LET s == XYValue(n, 0, IF n > 1 THEN 1 ELSE 0, size)
           IN  /\ n_lines = s.n_lines
               /\ data = s.data
               /\ expired = s.expired
               /\ index_x = s.index_x
               /\ index_y = s.index_y
               /\ axes2d = s.axes2d
               /\ width = s.width
               /\ height = s.height
               /\ path = s.path
               /\ recent_circle = s.recent_circle
               /\ warning_label = s.warning_label
               /\ invalid_dims = s.invalid_dims
               /\ pending_update = s.pending_update
               /\ threw = s.threw
               /\ last_op = s.last_op

\* a frame arrives from the server
OnMessage ==
    /\ StoreLen(This) < MaxStream
    /\ \E row \in Frames(n_lines, Newest(This)) :
           Becomes(on_message(Enter(This, "on_message"), row))

\* the simulation time moves on: 'adjust_time' calls schedule_update
AdjustTime ==
    \E k \in expired..StoreLen(This) :
        Becomes(schedule_update(Sim_adjust_time(Enter(This, "adjust_time"), k)))

\* the simulation is reset: 'sim_reset' calls reset
SimReset == Becomes(reset(Enter(This, "reset")))

\* the animation frame the pending update waited for
AnimationFrame ==
    /\ pending_update
    /\ Becomes(animation_frame(Enter(This, "frame")))

\* the host resizes the component
Resize ==
    \E size \in Sizes : Becomes(on_resize(Enter(This, "on_resize"), size[1], size[2]))

\* OK is clicked in the range dialog
SetRange ==
    \E text \in RangeTexts :
        Becomes(set_range_ok(This, text))

\* OK is clicked in the indices dialog
SetIndices ==
    \E text \in IndexTexts :
        Becomes(set_indices_ok(This, text))

\* the server sends a layout back (undo, redo, reload): one it holds, or the
\* one this component exports now
UpdateLayout ==
    \E config \in StoredLayouts(n_lines) \cup {layout_info(This)} :
        Becomes(update_layout(Enter(This, "update_layout"), config))

Next ==
    \/ OnMessage
    \/ AdjustTime
    \/ SimReset
    \/ AnimationFrame
    \/ Resize
    \/ SetRange
    \/ SetIndices
    \/ UpdateLayout

Spec == Init /\ [][Next]_vars

\* ------------------------------------------------------------- the claims
\* what is on the screen
Rendered(s) == <<s.path, s.recent_circle, s.warning_label, s.invalid_dims>>

\* the shared range and its copies in the axes
RangeOf(a) ==
    <<a.min_val, a.max_val, a.domain_x, a.domain_y, a.ticks_x, a.ticks_y>>

\* how many times a handler called update()
Updates(s) == Cardinality({k \in 1..Len(s.calls) : s.calls[k].op = "update"})

\* the handlers that end with a redraw
RedrawOps == {"frame", "on_resize", "set_range", "set_indices", "update_layout"}

\* the pairs (rows[ix][k], rows[iy][k]), in the order of the samples
Zip(rows, ix, iy) ==
    [k \in 1..Len(Row(rows, ix)) |-> <<Row(rows, ix)[k], Row(rows, iy)[k]>>]

\* C1, as stated: after a redraw of a window that holds fewer than two points,
\* invalid_dims is true.
C1_FewPointsInvalid ==
    (last_op = "frame" /\ StoreLen(This) < 2) => invalid_dims = TRUE

\* C1, amended: a redraw of a store with fewer than two dimensions leaves
\* invalid_dims true and draws no path; with two or more dimensions a redraw
\* of an empty window draws no path either, and leaves invalid_dims false.
C1_FewDimensionsInvalid ==
    [][last_op' = "frame" =>
          IF n_lines <= 1
          THEN invalid_dims' = TRUE /\ path' = path
          ELSE (Len(data'[1]) = 0 => (invalid_dims' = FALSE /\ path' = path))]_vars

\* C1: a redraw has run on the empty stream of a two-dimensional store
C1_Witness ==
    /\ last_op = "frame"
    /\ n_lines = 2
    /\ StoreLen(This) = 0
    /\ invalid_dims = FALSE

\* C2, as stated: the redraw that follows reset() leaves invalid_dims true.
C2_ResetThenInvalid ==
    [][(last_op = "reset" /\ last_op' = "frame") => invalid_dims' = TRUE]_vars

\* C2, amended: the redraw that follows reset() leaves invalid_dims true
\* exactly when the store has fewer than two dimensions, whatever was shown
\* before, and it draws nothing.
C2_ResetThenInvalidIffFewDimensions ==
    [][(last_op = "reset" /\ last_op' \in RedrawOps) =>
          /\ invalid_dims' = (n_lines <= 1)
          /\ path' = path
          /\ recent_circle'.cx = recent_circle.cx
          /\ recent_circle'.cy = recent_circle.cy]_vars

\* C2: reset() has run on a plot that shows a line, and its redraw is due
C2_Witness ==
    /\ last_op = "reset"
    /\ pending_update
    /\ Len(path) = 2
    /\ invalid_dims = FALSE

\* C3: reset() changes the sample stream and the pending redraw only, and
\* neither it nor the redraw that follows changes index_x, index_y or the
\* range.
C3_ResetKeepsConfiguration ==
    [][/\ last_op' = "reset" =>
            /\ Rendered(This)' = Rendered(This)
            /\ <<n_lines, width, height>>' = <<n_lines, width, height>>
            /\ <<index_x, index_y, axes2d>>' = <<index_x, index_y, axes2d>>
       /\ (last_op = "reset" /\ last_op' \in RedrawOps \ {"set_range", "set_indices", "update_layout"}) =>
            /\ <<index_x, index_y>>' = <<index_x, index_y>>
            /\ RangeOf(axes2d)' = RangeOf(axes2d)]_vars

\* C3: reset() has run on a component whose indices and range were changed
C3_Witness ==
    /\ last_op = "reset"
    /\ index_x = Num(10)
    /\ index_y = Num(10)
    /\ axes2d.domain_y = <<Num(0), Num(10)>>

\* a field that reads as a number
IsNumberText(f) == f # Undefined /\ f # <<>> /\ ~Number(f).nan

\* a field that is an integer in decimal digits
IsIntegerText(f) ==
    /\ f # Undefined
    /\ LET i == IF IsNeg(f) THEN 2 ELSE 1
       IN  Len(f) >= i /\ DigitRun(f, i) = Len(f) - i + 1

\* C4: set_range accepts "min,max" exactly when min < max and min*max <= 0;
\* then both axes have the domain [min, max]; and a rejected input changes
\* nothing.
C4_RangeAcceptance ==
    \A text \in RangeTexts :
        LET nums == split(text)
            min == Number(At(nums, 0))
            max == Number(At(nums, 1))
            s == set_range_ok(This, text)
        IN  IF /\ Len(nums) = 2
               /\ IsNumberText(At(nums, 0))
               /\ IsNumberText(At(nums, 1))
               /\ min.v < max.v
               /\ min.v * max.v <= 0
            THEN /\ s.axes2d.domain_x = <<min, max>>
                 /\ s.axes2d.domain_y = <<min, max>>
            ELSE s = This

\* C5: set_indices accepts "i,j" exactly when both are integers in [0, N);
\* then both indices are set; and a rejected input changes nothing.
C5_IndicesAcceptance ==
    \A text \in IndexTexts :
        LET nums == split(text)
            i == parseInt(At(nums, 0))
            j == parseInt(At(nums, 1))
            s == set_indices_ok(This, text)
        IN  IF /\ Len(nums) = 2
               /\ IsIntegerText(At(nums, 0))
               /\ IsIntegerText(At(nums, 1))
               /\ 0 <= i.v /\ i.v < n_lines * 10
               /\ 0 <= j.v /\ j.v < n_lines * 10
            THEN s.index_x = i /\ s.index_y = j
            ELSE s = This

\* C6: on_message never calls update(): it appends the sample and leaves one
\* redraw pending, with the screen as it was; after two frames in a row one
\* redraw is pending still, and the animation frame runs update() once for
\* both.
C6_IngestDefersRedraw ==
    \A row \in Frames(n_lines, Newest(This)) :
        LET s1 == on_message(Enter(This, "on_message"), row)
        IN  /\ Updates(s1) = 0
            /\ s1.pending_update
            /\ Rendered(s1) = Rendered(This)
            /\ s1.data = DataStore_push(This, row).data
            /\ \A next \in Frames(n_lines, Newest(s1)) :
                  LET s2 == on_message(Enter(s1, "on_message"), next)
                      s3 == animation_frame(Enter(s2, "frame"))
                  IN  /\ Updates(s2) = 0
                      /\ Rendered(s2) = Rendered(This)
                      /\ Updates(s3) = 1
                      /\ ~s3.pending_update
                      /\ Updates(animation_frame(Enter(s1, "frame"))) = 1

\* C6: two frames have arrived since the last redraw, and nothing of them is
\* drawn yet
C6_Witness ==
    /\ last_op = "on_message"
    /\ n_lines = 2
    /\ pending_update
    /\ StoreLen(This) = 2
    /\ expired = 0
    /\ path = <<>>
    /\ HasRow(data, index_x) /\ HasRow(data, index_y)

\* C7, as stated: after a redraw of a window with two points or more, the
\* path is the pairs (snapshot[index_x][k], snapshot[index_y][k]) in order,
\* the marker is at the last pair and invalid_dims is false.
C7_PathOfEnoughPoints ==
    (last_op = "frame" /\ StoreLen(This) >= 2) =>
        /\ HasRow(data, index_x)
        /\ HasRow(data, index_y)
        /\ path = Zip(data, index_x, index_y)
        /\ invalid_dims = FALSE

\* C7, amended: after a redraw of a store with two dimensions or more and a
\* window with one point or more: if index_x and index_y both select a
\* dimension, the path is the pairs (snapshot[index_x][k],
\* snapshot[index_y][k]) in order, the marker is at the last pair and
\* invalid_dims is false; if one of them selects none, the redraw has thrown.
C7_PathOfValidDimensions ==
    (last_op = "frame" /\ n_lines >= 2 /\ StoreLen(This) >= 1) =>
        IF HasRow(data, index_x) /\ HasRow(data, index_y)
        THEN /\ ~threw
             /\ path = Zip(data, index_x, index_y)
             /\ recent_circle.cx = path[Len(path)][1]
             /\ recent_circle.cy = path[Len(path)][2]
             /\ invalid_dims = FALSE
        ELSE threw

\* C7: a redraw has drawn the samples (1,2) and (4,5) of dimensions 0 and 1
C7_Witness ==
    /\ last_op = "frame"
    /\ index_x = Num(0) /\ index_y = Num(10)
    /\ path = <<<<1, 2>>, <<4, 5>>>>
    /\ recent_circle.cx = 4 /\ recent_circle.cy = 5

\* C8: a second redraw right after a redraw leaves the path, the marker,
\* invalid_dims and the warning as the first left them.
C8_RedrawIdempotent ==
    LET s1 == update(Enter(This, "frame"))
        s2 == update(Enter(s1, "frame"))
    IN  /\ Rendered(s2) = Rendered(s1)
        /\ s2.data = s1.data
        /\ s2.threw = s1.threw

\* C8: a frame has arrived, so that the first redraw changes the screen
C8_Witness ==
    /\ last_op = "on_message"
    /\ Rendered(update(This)) # Rendered(This)

\* C9, as stated: update_layout runs no redraw in which the indices are the
\* configuration's while the range is still the one from before the import.
C9_RangeBeforeIndices ==
    \A config \in StoredLayouts(n_lines) \cup {layout_info(This)} :
        LET s == update_layout(Enter(This, "update_layout"), config)
        IN  \A k \in 1..Len(s.calls) :
              ~ /\ s.calls[k].op = "update"
                /\ s.calls[k].index_x = config.index_x
                /\ s.calls[k].index_y = config.index_y
                /\ s.calls[k].domain_y = axes2d.domain_y
                /\ axes2d.domain_y # <<config.min_value, config.max_value>>

\* C9, amended: update_layout sets the indices and redraws first, with the
\* range still the one from before the import; only then, and only if that
\* redraw did not throw, it sets the range and redraws with both.
C9_IndicesBeforeRange ==
    \A config \in StoredLayouts(n_lines) \cup {layout_info(This)} :
        LET s == update_layout(Enter(This, "update_layout"), config)
            c == s.calls
            new == <<config.min_value, config.max_value>>
        IN  /\ c[1].op = "update_indices"
            /\ c[2].op = "update"
            /\ c[2].index_x = config.index_x /\ c[2].index_y = config.index_y
            /\ c[2].domain_x = axes2d.domain_x /\ c[2].domain_y = axes2d.domain_y
            /\ IF Len(c) = 2
               THEN s.threw /\ s.axes2d = axes2d
               ELSE /\ ~s.threw
                    /\ Len(c) = 5
                    /\ c[3].op = "update_range"
                    /\ c[3].domain_y = axes2d.domain_y
                    /\ c[4].op = "on_resize"
                    /\ c[5].op = "update"
                    /\ c[5].index_x = config.index_x
                    /\ c[5].index_y = config.index_y
                    /\ c[5].domain_x = new /\ c[5].domain_y = new
                    /\ s.axes2d.domain_x = new /\ s.axes2d.domain_y = new

\* C9: update_layout has brought in a stored layout and drawn a line with it
C9_Witness ==
    /\ last_op = "update_layout"
    /\ ~threw
    /\ n_lines = 2
    /\ index_x = Num(10) /\ index_y = Num(0)
    /\ axes2d.domain_y = <<Num(0), Num(10)>>
    /\ Len(path) = 2

\* C10: in every state the range of both axes has range_min < range_max and
\* range_min * range_max <= 0.
C10_RangeInvariant ==
    /\ axes2d.domain_x = axes2d.domain_y
    /\ ~axes2d.domain_y[1].nan /\ ~axes2d.domain_y[2].nan
    /\ axes2d.domain_y[1].v < axes2d.domain_y[2].v
    /\ axes2d.domain_y[1].v * axes2d.domain_y[2].v <= 0

\* C11: in every state index_x and index_y are integers in [0, N).
C11_IndexInvariant ==
    /\ ~index_x.nan /\ index_x.v % 10 = 0
    /\ 0 <= index_x.v /\ index_x.v < n_lines * 10
    /\ ~index_y.nan /\ index_y.v % 10 = 0
    /\ 0 <= index_y.v /\ index_y.v < n_lines * 10

\* C12, as stated: a redraw of an Invalid component whose window then holds
\* two samples or more sets invalid_dims to false and leaves no warning
\* rectangle.
C12_InvalidRecovers ==
    [][(invalid_dims /\ last_op' = "frame" /\ StoreLen(This)' >= 2) =>
          (invalid_dims' = FALSE /\ warning_label' = <<>>)]_vars

\* C12, amended: the Invalid state does not end when samples arrive: a redraw
\* of an Invalid component leaves invalid_dims true and the one warning
\* rectangle in place, however many samples the window holds.
C12_InvalidStays ==
    [][(invalid_dims /\ last_op' = "frame") =>
          /\ invalid_dims' = TRUE
          /\ Len(warning_label') = 1
          /\ warning_label' = warning_label
          /\ path' = <<>>]_vars

\* C12: an Invalid component has redrawn a window of two samples, and is
\* Invalid still
C12_Witness ==
    /\ last_op = "frame"
    /\ invalid_dims
    /\ StoreLen(This) = 2
    /\ Len(warning_label) = 1

\* C13: layout_info() returns the range and the indices of the component, and
\* update_layout(layout_info()) leaves the component with the same range and
\* the same indices.
C13_LayoutRoundTrip ==
    LET config == layout_info(This)
        s == update_layout(Enter(This, "update_layout"), config)
    IN  /\ config.min_value = axes2d.min_val
        /\ config.max_value = axes2d.max_val
        /\ <<config.min_value, config.max_value>> = axes2d.domain_x
        /\ <<config.min_value, config.max_value>> = axes2d.domain_y
        /\ config.index_x = index_x
        /\ config.index_y = index_y
        /\ s.index_x = index_x
        /\ s.index_y = index_y
        /\ RangeOf(s.axes2d) = RangeOf(axes2d)
        /\ layout_info(s) = config

\* C13: update_layout has run with indices and a range that no stored layout
\* holds, so with the layout the component exported
C13_Witness ==
    /\ last_op = "update_layout"
    /\ ~threw
    /\ index_x = Num(10) /\ index_y = Num(10)
    /\ axes2d.domain_y = <<Num(0), Num(10)>>
    /\ Len(path) = 2

\* the calls of a handler that persist the layout
Saves(s) == {k \in 1..Len(s.calls) : s.calls[k].op = "save_layout"}

\* C14: an accepted set_range resizes with the current viewport size and then
\* persists a layout that has the accepted min and max; a rejected set_range
\* or set_indices persists nothing.
C14_PersistAfterResize ==
    /\ \A text \in RangeTexts :
          LET nums == split(text)
              min == Number(At(nums, 0))
              max == Number(At(nums, 1))
              c == set_range_ok(This, text).calls
          IN  IF /\ Len(nums) = 2
                 /\ IsNumberText(At(nums, 0))
                 /\ IsNumberText(At(nums, 1))
                 /\ min.v < max.v
                 /\ min.v * max.v <= 0
              THEN /\ Saves(set_range_ok(This, text)) = {Len(c)}
                   /\ c[Len(c)].domain_x = <<min, max>>
                   /\ c[Len(c)].domain_y = <<min, max>>
                   /\ \E k \in 1..Len(c) :
                         /\ c[k].op = "on_resize"
                         /\ c[k].width = width
                         /\ c[k].height = height
              ELSE Saves(set_range_ok(This, text)) = {}
    /\ \A text \in IndexTexts :
          LET nums == split(text)
              i == parseInt(At(nums, 0))
              j == parseInt(At(nums, 1))
          IN  (~ /\ Len(nums) = 2
                 /\ IsIntegerText(At(nums, 0))
                 /\ IsIntegerText(At(nums, 1))
                 /\ 0 <= i.v /\ i.v < n_lines * 10
                 /\ 0 <= j.v /\ j.v < n_lines * 10)
              => Saves(set_indices_ok(This, text)) = {}

\* frames whose element count is not n
BadFrames(n) == {[i \in 1..k |-> 6 + i] : k \in (0..(n + 1)) \ {n}}

C16_ResizeSetsSizeAndRadius ==
    \A size \in Sizes :
        LET s == on_resize(Enter(This, "on_resize"), size[1], size[2])
            least == IF size[1] < size[2] THEN size[1] ELSE size[2]
        IN  /\ Updates(s) = 1
            /\ s.width = size[1]
            /\ s.height = size[2]
            /\ s.recent_circle.r * 30 = least

\* C17: in every state from the constructor's redraw on, invalid_dims is true
\* exactly when the store has one dimension or none, and one more redraw
\* leaves it so, however many samples the window holds.
C17_InvalidIffFewDimensions ==
    /\ invalid_dims = (n_lines <= 1)
    /\ update(Enter(This, "frame")).invalid_dims = (n_lines <= 1)

\* C17: a one-dimensional component has redrawn a window of one sample
C17_Witness ==
    /\ last_op = "frame"
    /\ n_lines = 1
    /\ StoreLen(This) = 1
    /\ invalid_dims

\* C18: with two dimensions or more, a step that leaves the store empty (a
\* reset, or a redraw of a window that has emptied) leaves the line and the
\* marker's position as the last redraw that drew them set them.
C18_EmptyWindowKeepsPath ==
    [][(n_lines >= 2 /\ StoreLen(This)' = 0) =>
          /\ path' = path
          /\ recent_circle'.cx = recent_circle.cx
          /\ recent_circle'.cy = recent_circle.cy]_vars

\* C18: a redraw has run on an empty window, and the line of the sample (1,2)
\* is shown still
C18_Witness ==
    /\ last_op = "frame"
    /\ n_lines = 2
    /\ StoreLen(This) = 0
    /\ path = <<<<1, 2>>>>
    /\ recent_circle.cx = 1 /\ recent_circle.cy = 2

\* C19: the warning holds one rectangle while invalid_dims is true and none
\* otherwise, and a further redraw or resize of an Invalid component appends
\* none.
C19_OneWarningRectangle ==
    /\ Len(warning_label) = IF invalid_dims THEN 1 ELSE 0
    /\ invalid_dims =>
          /\ Len(update(Enter(This, "frame")).warning_label) = 1
          /\ \A size \in Sizes :
                Len(on_resize(Enter(This, "on_resize"),
                              size[1], size[2]).warning_label) = 1

\* C19: an Invalid component has been resized, and its warning holds the one
\* rectangle, at the new size
C19_Witness ==
    /\ last_op = "on_resize"
    /\ invalid_dims
    /\ width = 120
    /\ Len(warning_label) = 1
    /\ warning_label[1].width = 20
====
